---- MODULE Spec2Model ----
(***************************************************************************)
(* tokio-serde: the Framed adapter (src/lib.rs 219-313) over a framed     *)
(* buffer transport, the Bincode / EncryptedBincode codecs                 *)
(* (src/lib.rs 343-534) and the Json / MessagePack / Cbor codecs           *)
(* (src/lib.rs 536-684).                                                   *)
(*                                                                         *)
(* Buffers are sequences of bytes (0..255).  Values are u64 items.         *)
(* Results of calls are records of one shape:                              *)
(*   [tag, val, bytes, kind, cause, conv]                                  *)
(* tag "Ok" / "Err" / "Panic" for codec and sink calls; "Item", "ErrItem", *)
(* "End", "Pending", "Panic" for the results of a pull.  conv records that *)
(* an error went through the codec-error -> transport-error conversion.    *)
(***************************************************************************)
EXTENDS Integers, Sequences, FiniteSets, TLC

\* ------------------------------------------------------------------ bounds
MaxRx == 3          \* buffers/errors the transport delivers before it exhausts
MaxSends == 2       \* submits on one adapter
MaxDuplexRx == 2    \* both halves driven: buffers the transport delivers
MaxDuplexSends == 1 \* both halves driven: submits

\* --------------------------------------------------------- program constants
NonceLen == 24      \* XNonce, &src[..24]
KeyLen == 32        \* chacha20poly1305::Key
TagLen == 16        \* Poly1305 tag appended by Aead::encrypt

\* ------------------------------------------------------------------ results
NoBytes == << >>

Res(t, v, b, k, c, x) ==
    [tag |-> t, val |-> v, bytes |-> b, kind |-> k, cause |-> c, conv |-> x]
Ok(v) == Res("Ok", v, NoBytes, "-", "-", FALSE)
OkBytes(b) == Res("Ok", 0, b, "-", "-", FALSE)
OkUnit == Res("Ok", 0, NoBytes, "-", "-", FALSE)
Err(k, c) == Res("Err", 0, NoBytes, k, c, FALSE)
Panic(c) == Res("Panic", 0, NoBytes, "-", c, FALSE)
Pending == Res("Pending", 0, NoBytes, "-", "-", FALSE)

\* --------------------------------------------------------------- byte helpers
RECURSIVE SumSeq(_)
SumSeq(s) == IF s = << >> THEN 0 ELSE Head(s) + SumSeq(Tail(s))

RECURSIVE WSum(_, _)
\* position-weighted sum with odd weights: every single-byte change moves it
WSum(s, i) ==
    IF s = << >> THEN 0 ELSE (((2 * i + 1) * Head(s)) + WSum(Tail(s), i + 1)) % 256

RECURSIVE XorN(_, _, _)
XorN(a, b, n) == IF n = 0 THEN 0
                 ELSE (((a % 2) + (b % 2)) % 2) + 2 * XorN(a \div 2, b \div 2, n - 1)
Xor(a, b) == XorN(a, b, 8)

RECURSIVE Pow256(_)
Pow256(n) == IF n = 0 THEN 1 ELSE 256 * Pow256(n - 1)

\* little-endian fixed-width integer, as bincode's LittleEndian writes it
ToLE(v, n) == [i \in 1..n |-> (v \div Pow256(i - 1)) % 256]
RECURSIVE FromLE(_)
FromLE(s) == IF s = << >> THEN 0 ELSE Head(s) + 256 * FromLE(Tail(s))

\* -------------------------------------------------- bincode options (field O)
DefaultOptions == [bounded |-> FALSE, limit |-> 0]
WithLimit(n) == [bounded |-> TRUE, limit |-> n]

\* bincode varint encoding of a u64 (DefaultOptions: varint, little endian):
\* up to 250 one byte; marker 251 + u16, 252 + u32, 253 + u64
VarintEncode(v) ==
    IF v <= 250 THEN <<v>>
    ELSE IF v < Pow256(2) THEN <<251>> \o ToLE(v, 2)
    ELSE <<252>> \o ToLE(v, 4)

\* options.serialize(item): the size limit is checked before writing
OptionsSerialize(o, v) ==
    LET b == VarintEncode(v) IN
    IF o.bounded /\ Len(b) > o.limit THEN Err("bincode", "SizeLimit")
    ELSE OkBytes(b)

VarintExtra(m) == IF m = 251 THEN 2 ELSE IF m = 252 THEN 4 ELSE 8

\* options.deserialize(bytes) of a u64: each read is charged to the limit
\* before it is made; bytes left over after the value are rejected.
OptionsDeserialize(o, b) ==
    IF o.bounded /\ o.limit < 1 THEN Err("bincode", "SizeLimit")
    ELSE IF Len(b) < 1 THEN Err("bincode", "UnexpectedEof")
    ELSE IF b[1] <= 250 THEN
        IF Len(b) > 1 THEN Err("bincode", "TrailingBytes") ELSE Ok(b[1])
    ELSE IF b[1] > 253 THEN Err("bincode", "InvalidVarint")
    ELSE LET n == VarintExtra(b[1]) IN
        IF o.bounded /\ o.limit < 1 + n THEN Err("bincode", "SizeLimit")
        ELSE IF Len(b) < 1 + n THEN Err("bincode", "UnexpectedEof")
        ELSE IF Len(b) > 1 + n THEN Err("bincode", "TrailingBytes")
        ELSE Ok(FromLE(SubSeq(b, 2, 1 + n)))

\* ------------------------------------------- XChaCha20Poly1305 (Aead trait)
\* A stream cipher and a keyed tag over (key, nonce, ciphertext): the
\* ciphertext is the plaintext xor a keystream, followed by TagLen tag bytes.
KeyStreamSeed(key, nonce) == (3 * SumSeq(key) + 5 * SumSeq(nonce)) % 256
KeyStream(seed, i) == (seed + 11 * i) % 256

AeadTag(key, nonce, ct) ==
    LET s == (7 * SumSeq(key) + 3 * SumSeq(nonce) + 5 * WSum(ct, 0)) % 256
    IN  [j \in 1..TagLen |-> (s + j) % 256]

\* cipher.encrypt(&nonce, plaintext)
AeadEncrypt(key, nonce, pt) ==
    LET seed == KeyStreamSeed(key, nonce)
        ct == [i \in 1..Len(pt) |-> Xor(pt[i], KeyStream(seed, i))]
    IN  OkBytes(ct \o AeadTag(key, nonce, ct))

\* chacha.decrypt(nonce, body): the tag is verified before anything is released
AeadDecrypt(key, nonce, body) ==
    IF Len(body) < TagLen THEN Err("aead", "aead::Error")
    ELSE LET n == Len(body) - TagLen
             seed == KeyStreamSeed(key, nonce)
             ct == SubSeq(body, 1, n)
             tag == SubSeq(body, n + 1, Len(body))
         IN  IF tag # AeadTag(key, nonce, ct) THEN Err("aead", "aead::Error")
             ELSE OkBytes([i \in 1..n |-> Xor(ct[i], KeyStream(seed, i))])

\* ------------------------------------------------------------------- codecs
\* A codec instance: which format, its bincode options and (EncryptedBincode)
\* its key.
Codec(k, o, key) == [kind |-> k, options |-> o, key |-> key]

\* gen_key(): KeyLen random bytes; the model's random source has two outcomes
gen_key == {[i \in 1..KeyLen |-> 1], [i \in 1..KeyLen |-> 2]}

\* mutant: the body is decrypted as a plain stream, its tag cut off unverified
EncryptedBincode_deserialize_Unauthenticated(c, src) ==
    IF Len(src) < NonceLen THEN Panic("slice index out of range")
    ELSE IF Len(c.key) # KeyLen THEN Panic("Key::from_slice length")
    ELSE LET nonce == SubSeq(src, 1, NonceLen)
             n == Len(src) - NonceLen - TagLen
             seed == KeyStreamSeed(c.key, nonce)
         IN  IF n < 0 THEN Err("InvalidData", "aead::Error")
             ELSE LET r == OptionsDeserialize(c.options,
                               [i \in 1..n |->
                                   Xor(src[NonceLen + i], KeyStream(seed, i))])
                  IN  IF r.tag = "Err" THEN Err("InvalidData", r.cause) ELSE r

\* mutant: a record that authenticates under another generated key is
\* reported with an error of its own
EncryptedBincode_deserialize_TellsWrongKey(c, src) ==
    IF Len(src) < NonceLen THEN Panic("slice index out of range")
    ELSE IF Len(c.key) # KeyLen THEN Panic("Key::from_slice length")
    ELSE LET nonce == SubSeq(src, 1, NonceLen)
             body == SubSeq(src, NonceLen + 1, Len(src))
             data == AeadDecrypt(c.key, nonce, body)
         IN  IF data.tag = "Err"
             THEN IF \E k \in gen_key : AeadDecrypt(k, nonce, body).tag = "Ok"
                  THEN Err("PermissionDenied", "wrong key")
                  ELSE Err("InvalidData", data.cause)
             ELSE LET r == OptionsDeserialize(c.options, data.bytes)
                  IN  IF r.tag = "Err" THEN Err("InvalidData", r.cause) ELSE r

\* EncryptedBincode::deserialize
EncryptedBincode_deserialize(c, src) ==
    IF Len(src) < NonceLen THEN Panic("slice index out of range")
    ELSE IF Len(c.key) # KeyLen THEN Panic("Key::from_slice length")
    ELSE LET nonce == SubSeq(src, 1, NonceLen)
             data == AeadDecrypt(c.key, nonce, SubSeq(src, NonceLen + 1, Len(src)))
         IN  IF data.tag = "Err" THEN Err("InvalidData", data.cause)
             ELSE LET r == OptionsDeserialize(c.options, data.bytes)
                  IN  IF r.tag = "Err" THEN Err("InvalidData", r.cause) ELSE r

\* mutant: the record is assembled ciphertext first, nonce last
EncryptedBincode_serialize_NonceLast(c, item, nonce) ==
    IF Len(c.key) # KeyLen THEN Panic("Key::from_slice length")
    ELSE LET ser == OptionsSerialize(c.options, item)
         IN  IF ser.tag = "Err" THEN Err("InvalidInput", ser.cause)
             ELSE LET other == AeadEncrypt(c.key, nonce, ser.bytes)
                  IN  IF other.tag = "Err" THEN Err("InvalidData", other.cause)
                      ELSE OkBytes(other.bytes \o nonce)

\* mutant: the nonce buffer is used as initialised, the drawn bytes dropped
EncryptedBincode_serialize_FixedNonce(c, item, nonce) ==
    IF Len(c.key) # KeyLen THEN Panic("Key::from_slice length")
    ELSE LET ser == OptionsSerialize(c.options, item)
             zero == [i \in 1..NonceLen |-> 0]
         IN  IF ser.tag = "Err" THEN Err("InvalidInput", ser.cause)
             ELSE LET other == AeadEncrypt(c.key, zero, ser.bytes)
                  IN  IF other.tag = "Err" THEN Err("InvalidData", other.cause)
                      ELSE OkBytes(zero \o other.bytes)

\* mutant: the tag is kept apart, the record is nonce and ciphertext only
EncryptedBincode_serialize_DetachedTag(c, item, nonce) ==
    IF Len(c.key) # KeyLen THEN Panic("Key::from_slice length")
    ELSE LET ser == OptionsSerialize(c.options, item)
         IN  IF ser.tag = "Err" THEN Err("InvalidInput", ser.cause)
             ELSE LET other == AeadEncrypt(c.key, nonce, ser.bytes)
                  IN  IF other.tag = "Err" THEN Err("InvalidData", other.cause)
                      ELSE OkBytes(nonce \o SubSeq(other.bytes, 1, Len(ser.bytes)))

\* EncryptedBincode::serialize; nonce is what rng.fill_bytes drew
EncryptedBincode_serialize(c, item, nonce) ==
    IF Len(c.key) # KeyLen THEN Panic("Key::from_slice length")
    ELSE LET ser == OptionsSerialize(c.options, item)
         IN  IF ser.tag = "Err" THEN Err("InvalidInput", ser.cause)
             ELSE LET other == AeadEncrypt(c.key, nonce, ser.bytes)
                  IN  IF other.tag = "Err" THEN Err("InvalidData", other.cause)
                      ELSE OkBytes(nonce \o other.bytes)

\* Bincode::deserialize
Bincode_deserialize(c, src) ==
    LET r == OptionsDeserialize(c.options, src)
    IN  IF r.tag = "Err" THEN Err("InvalidData", r.cause) ELSE r

\* Bincode::serialize
Bincode_serialize(c, item) ==
    LET r == OptionsSerialize(c.options, item)
    IN  IF r.tag = "Err" THEN Err("InvalidData", r.cause) ELSE r

\* big-endian fixed-width integer, as MessagePack and CBOR write it
ToBE(v, n) == [i \in 1..n |-> (v \div Pow256(n - i)) % 256]
RECURSIVE FromBE(_)
FromBE(s) == IF s = << >> THEN 0
             ELSE Head(s) * Pow256(Len(s) - 1) + FromBE(Tail(s))

\* ---- serde_json on a u64
RECURSIVE Digits(_)
\* serde_json::to_vec: the decimal digits, in ASCII
Digits(v) == IF v < 10 THEN <<48 + v>> ELSE Digits(v \div 10) \o <<48 + (v % 10)>>

\* the bytes serde_json skips as whitespace: space, \n, \r, \t
JsonWhitespace == {32, 10, 13, 9}
IsDigit(b) == b >= 48 /\ b <= 57

RECURSIVE SkipWhitespace(_)
SkipWhitespace(b) ==
    IF b # << >> /\ Head(b) \in JsonWhitespace THEN SkipWhitespace(Tail(b)) ELSE b

RECURSIVE LeadingDigits(_)
LeadingDigits(b) ==
    IF b # << >> /\ IsDigit(Head(b)) THEN 1 + LeadingDigits(Tail(b)) ELSE 0

RECURSIVE ParseDecimal(_, _)
ParseDecimal(b, acc) ==
    IF b = << >> THEN acc ELSE ParseDecimal(Tail(b), 10 * acc + (Head(b) - 48))

\* serde_json::from_reader: whitespace, the number, then Deserializer::end,
\* which skips whitespace and rejects anything else
serde_json_from_reader(src) ==
    LET s == SkipWhitespace(src)
        n == LeadingDigits(s)
        rest == SkipWhitespace(SubSeq(s, n + 1, Len(s)))
    IN  IF s = << >> THEN Err("serde_json", "EofWhileParsingValue")
        ELSE IF n = 0 THEN Err("serde_json", "ExpectedSomeValue")
        ELSE IF n > 1 /\ s[1] = 48 THEN Err("serde_json", "InvalidNumber")
        ELSE IF rest # << >> THEN Err("serde_json", "TrailingCharacters")
        ELSE Ok(ParseDecimal(SubSeq(s, 1, n), 0))

\* Json::deserialize
Json_deserialize(c, src) == serde_json_from_reader(src)

\* Json::serialize
Json_serialize(c, item) == OkBytes(Digits(item))

\* ---- rmp_serde on a u64
\* rmp_serde::to_vec: the shortest unsigned representation
rmp_serde_to_vec(v) ==
    IF v < 128 THEN <<v>>
    ELSE IF v < 256 THEN <<204, v>>
    ELSE IF v < Pow256(2) THEN <<205>> \o ToBE(v, 2)
    ELSE <<206>> \o ToBE(v, 4)

\* rmp_serde::from_read: Deserialize::deserialize on the reader and nothing
\* else; what the reader still holds after the value is never looked at
rmp_serde_from_read(src) ==
    IF src = << >> THEN Err("rmp_serde", "InvalidMarkerRead")
    ELSE LET m == src[1]
             \* uint 8/16/32/64 are 204..207, int 8/16/32/64 are 208..211
             w == IF m \in {204, 208} THEN 1 ELSE IF m \in {205, 209} THEN 2
                  ELSE IF m \in {206, 210} THEN 4 ELSE 8
         IN  IF m < 128 THEN Ok(m)
             ELSE IF m < 204 \/ m > 211 THEN Err("rmp_serde", "TypeMismatch")
             ELSE IF Len(src) < 1 + w THEN Err("rmp_serde", "InvalidDataRead")
             ELSE IF m >= 208 /\ src[2] >= 128 THEN Err("rmp_serde", "OutOfRange")
             ELSE Ok(FromBE(SubSeq(src, 2, 1 + w)))

\* MessagePack::deserialize
MessagePack_deserialize(c, src) ==
    LET r == rmp_serde_from_read(src)
    IN  IF r.tag = "Err" THEN Err("InvalidData", r.cause) ELSE r

\* MessagePack::serialize
MessagePack_serialize(c, item) == OkBytes(rmp_serde_to_vec(item))

\* ---- serde_cbor on a u64
\* serde_cbor::to_vec: major type 0 with the shortest argument
serde_cbor_to_vec(v) ==
    IF v < 24 THEN <<v>>
    ELSE IF v < 256 THEN <<24, v>>
    ELSE IF v < Pow256(2) THEN <<25>> \o ToBE(v, 2)
    ELSE <<26>> \o ToBE(v, 4)

\* serde_cbor::from_slice: the value, then Deserializer::end, which rejects
\* any byte left. Categories as Error::classify reports them.
serde_cbor_from_slice(src) ==
    IF src = << >> THEN Err("Eof", "EofWhileParsingValue")
    ELSE LET major == src[1] \div 32
             info == src[1] % 32
             w == IF info = 24 THEN 1 ELSE IF info = 25 THEN 2
                  ELSE IF info = 26 THEN 4 ELSE IF info = 27 THEN 8 ELSE 0
         IN  IF major = 0 /\ info > 27 THEN Err("Syntax", "UnassignedCode")
             ELSE IF (major = 0 \/ major = 7) /\ Len(src) < 1 + w
                  THEN Err("Eof", "EofWhileParsingValue")
             ELSE IF major # 0 THEN Err("Data", "invalid type")
             ELSE IF Len(src) > 1 + w THEN Err("Syntax", "TrailingData")
             ELSE Ok(IF w = 0 THEN info ELSE FromBE(SubSeq(src, 2, 1 + w)))

\* into_io_error: the io::ErrorKind chosen for each category
into_io_error(e) ==
    IF e.kind = "Eof" THEN Err("UnexpectedEof", e.cause)
    ELSE IF e.kind = "Syntax" THEN Err("InvalidInput", e.cause)
    ELSE Err("InvalidData", e.cause)

\* Cbor::deserialize
Cbor_deserialize(c, src) ==
    LET r == serde_cbor_from_slice(src)
    IN  IF r.tag = "Err" THEN into_io_error(r) ELSE r

\* Cbor::serialize
Cbor_serialize(c, item) == OkBytes(serde_cbor_to_vec(item))

\* Deserializer::deserialize / Serializer::serialize, dispatched on the codec
Deserialize(c, src) ==
    CASE c.kind = "EncryptedBincode" -> EncryptedBincode_deserialize(c, src)
      [] c.kind = "Bincode" -> Bincode_deserialize(c, src)
      [] c.kind = "Json" -> Json_deserialize(c, src)
      [] c.kind = "MessagePack" -> MessagePack_deserialize(c, src)
      [] c.kind = "Cbor" -> Cbor_deserialize(c, src)

Serialize(c, item, nonce) ==
    CASE c.kind = "EncryptedBincode" -> EncryptedBincode_serialize(c, item, nonce)
      [] c.kind = "Bincode" -> Bincode_serialize(c, item)
      [] c.kind = "Json" -> Json_serialize(c, item)
      [] c.kind = "MessagePack" -> MessagePack_serialize(c, item)
      [] c.kind = "Cbor" -> Cbor_serialize(c, item)

\* ------------------------------------------------------------ model inputs
Values == {1, 2, 3, 300}
\* the values the writing caller submits
SendValues == {2, 300}

\* rng.fill_bytes(&mut nonce): the nonces the random source can produce
Nonce(a) == [i \in 1..NonceLen |-> (16 * a + i) % 256]
Nonces == {Nonce(1), Nonce(2)}
DrawNonce(c) == IF c.kind = "EncryptedBincode" THEN Nonces ELSE {NoBytes}

ShortKey == <<1, 2, 3>>

\* The codec instances an adapter can be built with: Default / From<O> for
\* both formats (gen_key for the encrypted one) and EncryptedBincode::new
\* with a caller-supplied key.
Codecs ==
    {Codec("Bincode", o, NoBytes) : o \in {DefaultOptions, WithLimit(1)}}
    \cup {Codec("EncryptedBincode", o, k) :
            o \in {DefaultOptions, WithLimit(1)}, k \in gen_key}
    \cup {Codec("EncryptedBincode", DefaultOptions, ShortKey)}

\* the formats without options or key: Json, MessagePack, Cbor (Default)
PlainCodecs ==
    {Codec(k, DefaultOptions, NoBytes) : k \in {"Json", "MessagePack", "Cbor"}}

\* bytes that follow a complete value in the buffer handed to deserialize
TrailingBytes == {<<0>>, <<32>>, <<10>>, <<49>>, <<1, 2>>}

FlipBit(b, i, k) == [b EXCEPT ![i] = Xor(b[i], 2 ^ k)]

OtherKey(c) == [c EXCEPT !.key = CHOOSE k \in gen_key : k # c.key]

\* the nonce the sending peer drew for the frame carrying v
PeerNonce(c, v) ==
    IF c.kind = "EncryptedBincode" THEN Nonce(1 + (v % 2)) ELSE NoBytes

\* frames the peer wrote with the same codec configuration
PeerFrames(c, vs) ==
    {r.bytes : r \in {x \in {Serialize(c, v, PeerNonce(c, v)) : v \in vs} :
                        x.tag = "Ok"}}

\* buffers a peer or a faulty framing layer can deliver that are not
\* encodings under c: a short frame, a frame with a flipped bit, a frame
\* written under another key
BadBuffers(c) ==
    {<<1, 0>>}
    \cup (IF c.kind = "EncryptedBincode"
          THEN {FlipBit(b, Len(b), 0) : b \in PeerFrames(c, {2})}
               \cup PeerFrames(OtherKey(c), {2})
          ELSE {NoBytes, <<251, 44>>})

TransportErrors == {Err("ConnectionReset", "transport")}

\* what the transport's stream half can yield: Result<BytesMut, Error>
RxEvents(c) ==
    {OkBytes(b) : b \in PeerFrames(c, Values) \cup BadBuffers(c)}
    \cup TransportErrors

SeqsUpTo(S, n) == UNION {[1..k -> S] : k \in 0..n}

\* ------------------------------------------------------------------- state
VARIABLES
    codec,      \* Framed.codec
    panicked,   \* a call on the adapter unwound; its task is gone
    rx,         \* transport, stream half: what it will still deliver
    drained,    \* transport, stream half: it has answered end-of-stream
    consumed,   \* transport, stream half: what it has handed over
    out,        \* items the adapter's pulls have yielded, in order
    ended,      \* a pull has returned end-of-stream
    submitted,  \* [item, nonce] of every start_send call on the adapter
    sunk,       \* buffers the transport's start_send has received
    unflushed,  \* transport, sink half: accepted, not yet flushed
    wire,       \* transport, sink half: flushed
    ready,      \* transport, sink half: poll_ready has granted a slot
    closing,    \* the caller has begun closing the adapter
    closed,     \* transport, sink half: closed
    last,       \* the last call on the adapter and what it did
    cstage,     \* codec exercise: where the exercise stands
    citem,      \* codec exercise: the value given to serialize
    cnonce,     \* codec exercise: the nonce serialize drew
    cbuf,       \* codec exercise: the buffer given to deserialize
    cenc,       \* codec exercise: what serialize returned
    cdec        \* codec exercise: what deserialize returned

readVars == <<rx, drained, consumed, out, ended>>
writeVars == <<submitted, sunk, unflushed, wire, ready, closing, closed>>
codecVars == <<cstage, citem, cnonce, cbuf, cenc, cdec>>
vars == <<codec, panicked, readVars, writeVars, last, codecVars>>

\* one invocation of the underlying transport made during a call, with the
\* number of unflushed buffers the transport held when it was invoked
Inner(op, res, pend) == [op |-> op, res |-> res, pend |-> pend]
Call(op, ret, inner, n) == [op |-> op, ret |-> ret, inner |-> inner, codec |-> n]

\* -------------------------------------------------------- transport, stream
PollPending == [tag |-> "Pending", item |-> OkUnit]
PollNone == [tag |-> "None", item |-> OkUnit]
PollSome(e) == [tag |-> "Some", item |-> e]
PollPanic == [tag |-> "Panic", item |-> Panic("polled after end")]

\* inner.try_poll_next(cx) on a transport that still holds q. Framed accepts
\* any TryStream; once a stream has answered None (d) the Stream contract
\* places no requirement on a further poll: it may answer None again, stay
\* Pending, or panic.
inner_try_poll_next(q, d) ==
    IF d THEN {PollNone, PollPending, PollPanic}
    ELSE IF q = << >> THEN {PollNone}
    ELSE {PollPending, PollSome(Head(q))}

\* ---------------------------------------------------------- transport, sink
SinkError == Err("BrokenPipe", "transport")
\* inner.poll_ready / poll_flush / poll_close: Poll<Result<(), Error>>
inner_poll == {Pending, OkUnit, SinkError}
\* inner.start_send(bytes): Result<(), Error>
inner_start_send == {OkUnit, SinkError}

\* the transport's sink half after the invocations ops, made in order, where
\* ans[op] is the transport's answer to op
RECURSIVE RunSink(_, _, _)
RunSink(ops, ts, ans) ==
    IF ops = << >> THEN ts
    ELSE LET op == Head(ops)
             res == ans[op]
             logged == [ts EXCEPT !.log = Append(@, Inner(op, res.tag, Len(ts.unflushed)))]
             nxt == IF res.tag # "Ok" THEN logged
                    ELSE IF op = "poll_ready" THEN [logged EXCEPT !.ready = TRUE]
                    ELSE IF op = "poll_flush"
                    THEN [logged EXCEPT !.wire = ts.wire \o ts.unflushed,
                                        !.unflushed = << >>]
                    ELSE [logged EXCEPT !.closed = TRUE]
         IN  RunSink(Tail(ops), nxt, ans)

Answers(r, f, cl) == [poll_ready |-> r, poll_flush |-> f, poll_close |-> cl]
SinkState ==
    [unflushed |-> unflushed, wire |-> wire, closed |-> closed, ready |-> ready,
     log |-> << >>]

\* ------------------------------------------------------------------ Framed
\* Transport::Error: From<Codec::Error> / Codec::Error: Into<Transport::Error>
From(e) == [e EXCEPT !.conv = TRUE]

Item(v) == Res("Item", v, NoBytes, "-", "-", FALSE)
ErrItem(e) == [e EXCEPT !.tag = "ErrItem"]
End == Res("End", 0, NoBytes, "-", "-", FALSE)

\* mutants of Framed::poll_next
\* the exhausted transport is reported as not ready
Framed_poll_next_EndAsPending(c, p) ==
    IF p.tag \in {"Pending", "None"} THEN [ret |-> Pending, dec |-> 0]
    ELSE IF p.item.tag = "Err" THEN [ret |-> ErrItem(p.item), dec |-> 0]
    ELSE LET d == Deserialize(c, p.item.bytes)
         IN  [ret |-> IF d.tag = "Panic" THEN d
                      ELSE IF d.tag = "Err" THEN ErrItem(From(d))
                      ELSE Item(d.val),
              dec |-> 1]

\* a transport that is not ready is reported as exhausted
Framed_poll_next_PendingAsEnd(c, p) ==
    IF p.tag \in {"Pending", "None"} THEN [ret |-> End, dec |-> 0]
    ELSE IF p.item.tag = "Err" THEN [ret |-> ErrItem(p.item), dec |-> 0]
    ELSE LET d == Deserialize(c, p.item.bytes)
         IN  [ret |-> IF d.tag = "Panic" THEN d
                      ELSE IF d.tag = "Err" THEN ErrItem(From(d))
                      ELSE Item(d.val),
              dec |-> 1]

\* a transport error is decoded as if it were an (empty) buffer
Framed_poll_next_DecodesErrors(c, p) ==
    IF p.tag = "Pending" THEN [ret |-> Pending, dec |-> 0]
    ELSE IF p.tag = "None" THEN [ret |-> End, dec |-> 0]
    ELSE LET d == Deserialize(c, p.item.bytes)
         IN  [ret |-> IF d.tag = "Panic" THEN d
                      ELSE IF d.tag = "Err" THEN ErrItem(From(d))
                      ELSE Item(d.val),
              dec |-> 1]

\* a decode failure ends the stream instead of being yielded
Framed_poll_next_EndOnDecodeError(c, p) ==
    IF p.tag = "Pending" THEN [ret |-> Pending, dec |-> 0]
    ELSE IF p.tag = "None" THEN [ret |-> End, dec |-> 0]
    ELSE IF p.item.tag = "Err" THEN [ret |-> ErrItem(p.item), dec |-> 0]
    ELSE LET d == Deserialize(c, p.item.bytes)
         IN  [ret |-> IF d.tag = "Panic" THEN d
                      ELSE IF d.tag = "Err" THEN End
                      ELSE Item(d.val),
              dec |-> 1]

\* Framed::poll_next on the transport's answer p: the result of the pull and
\* the number of decoder invocations
Framed_poll_next(c, p) ==
    IF p.tag = "Pending" THEN [ret |-> Pending, dec |-> 0]
    ELSE IF p.tag = "None" THEN [ret |-> End, dec |-> 0]
    ELSE IF p.item.tag = "Err" THEN [ret |-> ErrItem(p.item), dec |-> 0]
    ELSE LET d == Deserialize(c, p.item.bytes)
         IN  [ret |-> IF d.tag = "Panic" THEN d
                      ELSE IF d.tag = "Err" THEN ErrItem(From(d))
                      ELSE Item(d.val),
              dec |-> 1]

\* mutants of Framed::start_send
\* on an encode failure an empty buffer is submitted before the error returns
Framed_start_send_SubmitsOnError(c, item, nonce, t) ==
    LET res == Serialize(c, item, nonce)
    IN  IF res.tag = "Panic" THEN [ret |-> res, fwd |-> << >>]
        ELSE IF res.tag = "Err" THEN [ret |-> From(res), fwd |-> <<NoBytes>>]
        ELSE [ret |-> t, fwd |-> <<res.bytes>>]

\* the transport's answer to start_send is dropped
Framed_start_send_IgnoresSinkError(c, item, nonce, t) ==
    LET res == Serialize(c, item, nonce)
    IN  IF res.tag = "Panic" THEN [ret |-> res, fwd |-> << >>]
        ELSE IF res.tag = "Err" THEN [ret |-> From(res), fwd |-> << >>]
        ELSE [ret |-> OkUnit, fwd |-> <<res.bytes>>]

\* a refused buffer is submitted again
Framed_start_send_Retries(c, item, nonce, t) ==
    LET res == Serialize(c, item, nonce)
    IN  IF res.tag = "Panic" THEN [ret |-> res, fwd |-> << >>]
        ELSE IF res.tag = "Err" THEN [ret |-> From(res), fwd |-> << >>]
        ELSE [ret |-> t,
              fwd |-> IF t.tag = "Err" THEN <<res.bytes, res.bytes>> ELSE <<res.bytes>>]

\* Framed::start_send: the result, and the buffers handed to
\* inner.start_send, which answers t
Framed_start_send(c, item, nonce, t) ==
    LET res == Serialize(c, item, nonce)
    IN  IF res.tag = "Panic" THEN [ret |-> res, fwd |-> << >>]
        ELSE IF res.tag = "Err" THEN [ret |-> From(res), fwd |-> << >>]
        ELSE [ret |-> t, fwd |-> <<res.bytes>>]

\* mutant: readiness is granted only once the transport has flushed
Framed_poll_ready_FlushesFirst(t) == [ret |-> t, inner |-> <<"poll_flush", "poll_ready">>]

\* Framed::poll_ready: the result and the transport operations invoked
Framed_poll_ready(t) == [ret |-> t, inner |-> <<"poll_ready">>]

\* Framed::poll_flush
Framed_poll_flush(f) == [ret |-> f, inner |-> <<"poll_flush">>]

\* mutant: close delegates to the transport without flushing first
Framed_poll_close_NoFlush(f, cl) == [ret |-> cl, inner |-> <<"poll_close">>]

\* mutant: a flush error is dropped and the transport is closed all the same
Framed_poll_close_IgnoresFlushError(f, cl) ==
    IF f.tag = "Pending" THEN [ret |-> f, inner |-> <<"poll_flush">>]
    ELSE [ret |-> cl, inner |-> <<"poll_flush", "poll_close">>]

\* mutant: close only flushes and reports the flush, the transport is never
\* asked to close
Framed_poll_close_OnlyFlushes(f, cl) == [ret |-> f, inner |-> <<"poll_flush">>]

\* Framed::poll_close: ready!(poll_flush)? then inner.poll_close
Framed_poll_close(f, cl) ==
    IF f.tag # "Ok" THEN [ret |-> f, inner |-> Framed_poll_flush(f).inner]
    ELSE [ret |-> cl, inner |-> Framed_poll_flush(f).inner \o <<"poll_close">>]

\* ----------------------------------------------------------------- actions
NoCall == Call("none", OkUnit, << >>, 0)

\* <Framed as Stream>::poll_next
poll_next ==
    /\ ~panicked
    /\ \E p \in inner_try_poll_next(rx, drained) :
        \* a panic of the transport unwinds through the adapter's frame
        LET r == IF p.tag = "Panic" THEN [ret |-> p.item, dec |-> 0]
                 ELSE Framed_poll_next(codec, p)
        IN  /\ rx' = IF p.tag = "Some" THEN Tail(rx) ELSE rx
            /\ drained' = (drained \/ p.tag = "None")
            /\ consumed' = IF p.tag = "Some" THEN Append(consumed, Head(rx))
                           ELSE consumed
            /\ out' = IF r.ret.tag \in {"Item", "ErrItem"} THEN Append(out, r.ret)
                      ELSE out
            /\ ended' = (ended \/ r.ret.tag = "End")
            /\ panicked' = (r.ret.tag = "Panic")
            /\ last' = Call("poll_next", r.ret,
                            <<Inner("try_poll_next", p.tag, Len(unflushed))>>, r.dec)
    /\ UNCHANGED <<codec, writeVars, codecVars>>

\* the effect of a sink call that invoked the transport operations r.inner
SinkCall(op, r, ans) ==
    LET ts == RunSink(r.inner, SinkState, ans)
    IN  /\ unflushed' = ts.unflushed
        /\ wire' = ts.wire
        /\ closed' = ts.closed
        /\ ready' = ts.ready
        /\ last' = Call(op, r.ret, ts.log, 0)
        /\ UNCHANGED <<codec, panicked, readVars, submitted, sunk, codecVars>>

\* <Framed as Sink>::poll_ready
poll_ready ==
    /\ ~panicked /\ ~closing
    /\ \E t \in inner_poll :
        /\ SinkCall("poll_ready", Framed_poll_ready(t), Answers(t, t, t))
        /\ UNCHANGED closing

\* mutant: the adapter remembers a failed submit and refuses every later one
start_send_Poisoned ==
    /\ ~panicked /\ ~closing /\ ready
    /\ Len(submitted) < MaxSends
    /\ \E item \in SendValues, nonce \in DrawNonce(codec), t \in inner_start_send :
        LET failedBefore ==
                \/ \E i \in 1..Len(submitted) :
                       Serialize(codec, submitted[i].item, submitted[i].nonce).tag = "Err"
                \/ Len(unflushed) + Len(wire) < Len(sunk)
            r == IF failedBefore THEN [ret |-> Err("Other", "poisoned"), fwd |-> << >>]
                 ELSE Framed_start_send(codec, item, nonce, t)
        IN  /\ submitted' = Append(submitted, [item |-> item, nonce |-> nonce])
            /\ sunk' = sunk \o r.fwd
            /\ unflushed' = IF t.tag = "Ok" THEN unflushed \o r.fwd ELSE unflushed
            /\ ready' = FALSE
            /\ panicked' = (r.ret.tag = "Panic")
            /\ last' = Call("start_send", r.ret,
                            [i \in 1..Len(r.fwd) |->
                                Inner("start_send", t.tag, Len(unflushed))], 1)
    /\ UNCHANGED <<codec, readVars, wire, closing, closed, codecVars>>

\* mutant: a successful encode moves the codec on to another key, which
\* the decoder of the same adapter then uses
start_send_RatchetsKey ==
    /\ ~panicked /\ ~closing /\ ready
    /\ Len(submitted) < MaxSends
    /\ \E item \in SendValues, nonce \in DrawNonce(codec), t \in inner_start_send :
        LET r == Framed_start_send(codec, item, nonce, t)
        IN  /\ submitted' = Append(submitted, [item |-> item, nonce |-> nonce])
            /\ sunk' = sunk \o r.fwd
            /\ unflushed' = IF t.tag = "Ok" THEN unflushed \o r.fwd ELSE unflushed
            /\ ready' = FALSE
            /\ panicked' = (r.ret.tag = "Panic")
            /\ codec' = IF codec.kind = "EncryptedBincode" /\ r.fwd # << >>
                        THEN OtherKey(codec) ELSE codec
            /\ last' = Call("start_send", r.ret,
                            [i \in 1..Len(r.fwd) |->
                                Inner("start_send", t.tag, Len(unflushed))], 1)
    /\ UNCHANGED <<readVars, wire, closing, closed, codecVars>>

\* <Framed as Sink>::start_send, after poll_ready granted a slot
start_send ==
    /\ ~panicked /\ ~closing /\ ready
    /\ Len(submitted) < MaxSends
    /\ \E item \in SendValues, nonce \in DrawNonce(codec), t \in inner_start_send :
        LET r == Framed_start_send(codec, item, nonce, t)
        IN  /\ submitted' = Append(submitted, [item |-> item, nonce |-> nonce])
            /\ sunk' = sunk \o r.fwd
            /\ unflushed' = IF t.tag = "Ok" THEN unflushed \o r.fwd ELSE unflushed
            /\ ready' = FALSE
            /\ panicked' = (r.ret.tag = "Panic")
            /\ last' = Call("start_send", r.ret,
                            [i \in 1..Len(r.fwd) |->
                                Inner("start_send", t.tag, Len(unflushed))], 1)
    /\ UNCHANGED <<codec, readVars, wire, closing, closed, codecVars>>

\* <Framed as Sink>::poll_flush
poll_flush ==
    /\ ~panicked /\ ~closing
    /\ \E f \in inner_poll :
        /\ SinkCall("poll_flush", Framed_poll_flush(f), Answers(f, f, f))
        /\ UNCHANGED closing

\* <Framed as Sink>::poll_close, polled until the transport is closed
poll_close ==
    /\ ~panicked /\ ~closed
    /\ \E f \in inner_poll, cl \in inner_poll :
        /\ SinkCall("poll_close", Framed_poll_close(f, cl), Answers(f, f, cl))
        /\ closing' = TRUE

\* ----------------------------------------- a codec used without an adapter
RawBuffers == {[i \in 1..n |-> i] : n \in 0..(NonceLen + TagLen)}

codec_serialize ==
    /\ cstage = "idle"
    /\ \E item \in Values, nonce \in DrawNonce(codec) :
        LET r == Serialize(codec, item, nonce)
        IN  /\ citem' = item
            /\ cnonce' = nonce
            /\ cenc' = r
            /\ cbuf' = r.bytes
            /\ cstage' = IF r.tag = "Ok" THEN "encoded" ELSE "failed"
    /\ UNCHANGED <<codec, panicked, readVars, writeVars, last, cdec>>

codec_supply ==
    /\ cstage = "idle"
    /\ \E b \in RawBuffers \cup BadBuffers(codec) :
        /\ cbuf' = b
        /\ cstage' = "supplied"
    /\ UNCHANGED <<codec, panicked, readVars, writeVars, last, citem, cnonce,
                   cenc, cdec>>

\* one bit of the buffer serialize returned is flipped before it is decoded
codec_tamper ==
    /\ cstage = "encoded"
    /\ \E i \in 1..Len(cbuf), k \in 0..7 :
        cbuf' = FlipBit(cbuf, i, k)
    /\ cstage' = "tampered"
    /\ UNCHANGED <<codec, panicked, readVars, writeVars, last, citem, cnonce,
                   cenc, cdec>>

\* the buffer serialize returned reaches deserialize with bytes after it
codec_append ==
    /\ cstage = "encoded"
    /\ \E extra \in TrailingBytes :
        cbuf' = cbuf \o extra
    /\ cstage' = "extended"
    /\ UNCHANGED <<codec, panicked, readVars, writeVars, last, citem, cnonce,
                   cenc, cdec>>

\* deserialize on the buffer at hand: as serialize returned it (decoded), as
\* supplied from outside (parsed), with a flipped bit (verified), with
\* trailing bytes (reparsed)
codec_deserialize ==
    /\ cstage \in {"encoded", "supplied", "tampered", "extended"}
    /\ cdec' = Deserialize(codec, cbuf)
    /\ cstage' = CASE cstage = "encoded" -> "decoded"
                   [] cstage = "supplied" -> "parsed"
                   [] cstage = "tampered" -> "verified"
                   [] cstage = "extended" -> "reparsed"
    /\ UNCHANGED <<codec, panicked, readVars, writeVars, last, citem, cnonce,
                   cbuf, cenc>>

\* ----------------------------------------------------------- specifications
InitState ==
    /\ panicked = FALSE
    /\ drained = FALSE
    /\ consumed = << >> /\ out = << >> /\ ended = FALSE
    /\ submitted = << >> /\ sunk = << >> /\ unflushed = << >> /\ wire = << >>
    /\ ready = FALSE /\ closing = FALSE /\ closed = FALSE
    /\ last = NoCall
    /\ cstage = "idle" /\ citem = 0 /\ cnonce = NoBytes /\ cbuf = NoBytes
    /\ cenc = OkUnit /\ cdec = OkUnit

InitAdapter == codec \in Codecs /\ InitState

\* read half: the transport delivers up to MaxRx frames or errors, then ends
ReadInit == InitAdapter /\ rx \in SeqsUpTo(RxEvents(codec), MaxRx)
ReadNext == poll_next
ReadSpec == ReadInit /\ [][ReadNext]_vars

\* write half
WriteInit == InitAdapter /\ rx = << >>
WriteNext == poll_ready \/ start_send \/ poll_flush \/ poll_close
WriteSpec == WriteInit /\ [][WriteNext]_vars

\* a codec on its own
CodecInit == codec \in Codecs \cup PlainCodecs /\ InitState /\ rx = << >>
CodecNext ==
    \/ codec_serialize \/ codec_supply \/ codec_tamper \/ codec_append
    \/ codec_deserialize
CodecSpec == CodecInit /\ [][CodecNext]_vars

\* both halves of one adapter, driven in any interleaving: a codec whose
\* encoder can fail, one with a generated key, one with a key of the wrong
\* length; the transport delivers a frame of the peer or a two-byte frame
DuplexCodecs ==
    {Codec("Bincode", WithLimit(1), NoBytes),
     Codec("EncryptedBincode", DefaultOptions, CHOOSE k \in gen_key : TRUE),
     Codec("EncryptedBincode", DefaultOptions, ShortKey)}
DuplexEvents(c) == {OkBytes(b) : b \in PeerFrames(c, {2}) \cup {<<1, 0>>}}

Init ==
    /\ codec \in DuplexCodecs
    /\ InitState
    /\ rx \in SeqsUpTo(DuplexEvents(codec), MaxDuplexRx)
Next ==
    \/ poll_next
    \/ poll_ready
    \/ (Len(submitted) < MaxDuplexSends /\ start_send)
    \/ poll_flush
    \/ poll_close
Spec == Init /\ [][Next]_vars

\* =================================================================== claims
Delivered == consumed \o rx
LastSubmit == submitted[Len(submitted)]

\* the nonce a buffer would have been written with under c
NonceOf(c, b) ==
    IF c.kind = "EncryptedBincode" /\ Len(b) >= NonceLen THEN SubSeq(b, 1, NonceLen)
    ELSE NoBytes

\* b is what serialize returns for v under c (for the nonce b carries)
IsEncodingOf(c, b, v) == Serialize(c, v, NonceOf(c, b)) = OkBytes(b)
IsEncoding(c, b) == \E v \in Values : IsEncodingOf(c, b, v)

\* the value whose encoding under c is the buffer b
EncodedValue(c, b) == CHOOSE v \in Values : IsEncodingOf(c, b, v)

\* ------------------------------------------------------------------------
\* C1: when every buffer the transport delivers is a valid encoding, the
\* pulls yield Ok(decoded value) for each buffer, one item per buffer, in
\* the transport's delivery order, and then end-of-stream: a pull on the
\* exhausted transport returns end, and end is returned only after every
\* delivered buffer has been yielded.
AllValid ==
    \A i \in 1..Len(Delivered) :
        Delivered[i].tag = "Ok" /\ IsEncoding(codec, Delivered[i].bytes)

C1_InOrderThenEnd ==
    AllValid =>
        /\ panicked => ended
        /\ Len(out) = Len(consumed)
        /\ \A i \in 1..Len(consumed) :
              out[i] = Item(EncodedValue(codec, consumed[i].bytes))
        /\ (last.op = "poll_next" /\ last.inner[1].res = "None") => last.ret = End
        /\ ended => (rx = << >> /\ Len(out) = Len(Delivered))

\* the spec's scenario: encode(1), encode(2), encode(3), then exhausted
C1_Witness ==
    /\ codec.kind = "EncryptedBincode"
    /\ AllValid
    /\ out = <<Item(1), Item(2), Item(3)>>
    /\ ended /\ last.ret = End

\* ------------------------------------------------------------------------
\* C2: every invocation of the transport's close made by poll_close comes
\* directly after a flush of the transport that completed successfully in
\* the same call, so the transport holds no unflushed buffer when its close
\* is invoked; once closed, everything the transport accepted is on the wire.
C2_FlushBeforeClose ==
    /\ \A i \in 1..Len(last.inner) :
          last.inner[i].op = "poll_close" =>
              /\ i > 1
              /\ last.inner[i - 1].op = "poll_flush"
              /\ last.inner[i - 1].res = "Ok"
              /\ last.inner[i].pend = 0
    /\ closed => unflushed = << >>

\* close requested with one accepted, unflushed buffer: flushed, then closed
C2_Witness ==
    /\ last.op = "poll_close"
    /\ last.inner = <<Inner("poll_flush", "Ok", 1), Inner("poll_close", "Ok", 0)>>
    /\ closed /\ Len(wire) = 1

\* ------------------------------------------------------------------------
\* C3: a pull in which the transport answers Pending returns Pending, takes
\* no buffer from the transport, does not invoke the decoder, yields nothing
\* and leaves the codec unchanged.
C3_PendingPropagates ==
    [][(last'.op = "poll_next" /\ last'.inner[1].res = "Pending") =>
          /\ last'.ret = Pending
          /\ last'.codec = 0
          /\ rx' = rx /\ consumed' = consumed /\ out' = out
          /\ codec' = codec /\ ended' = ended /\ ~panicked']_vars

C3_Witness ==
    /\ last.op = "poll_next" /\ last.inner[1].res = "Pending"
    /\ last.ret = Pending
    /\ Len(consumed) = 1 /\ Len(rx) = 1

\* ------------------------------------------------------------------------
\* C4: a start_send whose encoder returns an error returns that error,
\* converted to the transport's error type, and invokes nothing on the
\* transport: the buffers the transport has received and holds are the same
\* after the call as before.
EncodeOf(s) == Serialize(codec, s.item, s.nonce)

C4_EncodeFailureSubmitsNothing ==
    [][(submitted' # submitted /\ Serialize(codec', submitted'[Len(submitted')].item,
                                          submitted'[Len(submitted')].nonce).tag = "Err") =>
          /\ last'.ret = From(Serialize(codec', submitted'[Len(submitted')].item,
                                        submitted'[Len(submitted')].nonce))
          /\ last'.inner = << >>
          /\ sunk' = sunk /\ unflushed' = unflushed /\ wire' = wire]_vars

C4_Witness ==
    /\ last.op = "start_send"
    /\ last.ret.tag = "Err" /\ last.ret.conv /\ last.ret.cause = "SizeLimit"
    /\ Len(submitted) = 2 /\ Len(sunk) = 1

\* ------------------------------------------------------------------------
\* C5: EncryptedBincode::deserialize of a buffer shorter than 24 bytes
\* returns an error value (it does not panic).
C5_ShortBufferIsError ==
    (cstage = "parsed" /\ codec.kind = "EncryptedBincode" /\ Len(cbuf) < NonceLen)
        => cdec.tag = "Err"

\* ------------------------------------------------------------------------
\* C6: a pull in which the transport yields a transport error yields that
\* same error, unconverted, as an error item and does not invoke the decoder.
C6_TransportErrorPassesThrough ==
    (/\ last.op = "poll_next" /\ last.inner[1].res = "Some"
     /\ consumed[Len(consumed)].tag = "Err") =>
        /\ last.ret = ErrItem(consumed[Len(consumed)])
        /\ ~last.ret.conv
        /\ last.codec = 0
        /\ out # << >> /\ out[Len(out)] = last.ret

C6_Witness ==
    /\ last.op = "poll_next" /\ last.inner[1].res = "Some"
    /\ consumed[Len(consumed)] \in TransportErrors
    /\ last.ret.tag = "ErrItem" /\ last.ret.kind = "ConnectionReset"

\* ------------------------------------------------------------------------
\* C7: a buffer on which the decoder returns an error yields exactly one
\* error item, carrying that error, at its place in the output; the stream
\* is not ended by it, and every later delivery on which the decoder returns
\* is still yielded at its place, in order.
DecodeOf(e) == Deserialize(codec, e.bytes)
IsDecodeFailure(e) == e.tag = "Ok" /\ DecodeOf(e).tag = "Err"
Returns(e) == e.tag = "Err" \/ DecodeOf(e).tag # "Panic"
ExpectedItem(e) ==
    IF e.tag = "Err" THEN ErrItem(e)
    ELSE IF DecodeOf(e).tag = "Err" THEN ErrItem(From(DecodeOf(e)))
    ELSE Item(DecodeOf(e).val)

C7_DecodeFailureIsOneErrorItem ==
    \A i \in 1..Len(consumed) :
        IsDecodeFailure(consumed[i]) =>
            /\ i <= Len(out)
            /\ out[i] = ErrItem(From(DecodeOf(consumed[i])))
            /\ Len(out) <= Len(consumed)
            /\ ended => rx = << >>
            /\ \A j \in (i + 1)..Len(consumed) :
                  Returns(consumed[j]) =>
                      (j <= Len(out) /\ out[j] = ExpectedItem(consumed[j]))

\* [valid 1, invalid, valid 3]: Ok(1), Err, Ok(3), end-of-stream
C7_Witness ==
    /\ Len(out) = 3 /\ ended
    /\ out[1] = Item(1) /\ out[3] = Item(3)
    /\ IsDecodeFailure(consumed[2])
    /\ out[2].tag = "ErrItem" /\ out[2].conv

\* ------------------------------------------------------------------------
\* C8: a start_send whose encoder succeeds hands exactly one buffer, the
\* encoding of the value, to the transport's start_send and returns the
\* transport's answer unchanged.
C8_EncodeSuccessForwardsOne ==
    (last.op = "start_send" /\ EncodeOf(LastSubmit).tag = "Ok") =>
        /\ Len(last.inner) = 1
        /\ last.inner[1].op = "start_send"
        /\ sunk # << >> /\ sunk[Len(sunk)] = EncodeOf(LastSubmit).bytes
        /\ last.ret \in inner_start_send
        /\ last.ret.tag = last.inner[1].res
        /\ (last.ret.tag = "Ok") =>
              (unflushed # << >> /\ unflushed[Len(unflushed)] = sunk[Len(sunk)])

\* the transport refused the second buffer: its error comes back as it is
C8_Witness ==
    /\ last.op = "start_send" /\ EncodeOf(LastSubmit).tag = "Ok"
    /\ last.ret = SinkError
    /\ Len(sunk) = 2 /\ Len(unflushed) = 1

\* ------------------------------------------------------------------------
\* C9: the buffers the transport's start_send has received are, in
\* submission order, the encodings of exactly the submitted values whose
\* encoding succeeded: each once, none dropped, merged or reordered.
RECURSIVE EncodingsOf(_)
EncodingsOf(subs) ==
    IF subs = << >> THEN << >>
    ELSE LET r == EncodeOf(Head(subs))
         IN  (IF r.tag = "Ok" THEN <<r.bytes>> ELSE << >>) \o EncodingsOf(Tail(subs))

C9_SunkIsEncodingsInOrder == sunk = EncodingsOf(submitted)

\* the first submit failed to encode, the second did not
C9_Witness ==
    /\ Len(submitted) = 2
    /\ EncodeOf(submitted[1]).tag = "Err"
    /\ sunk = <<EncodeOf(submitted[2]).bytes>>

\* ------------------------------------------------------------------------
\* C10: round trip: a buffer returned by serialize(v), given to deserialize
\* of the same codec instance, decodes to Ok(v).
C10_RoundTrip == cstage = "decoded" => cdec = Ok(citem)

C10_Witness ==
    /\ cstage = "decoded" /\ codec.kind = "EncryptedBincode"
    /\ citem = 300 /\ cdec = Ok(300)
    /\ Len(cbuf) = NonceLen + 3 + TagLen

\* ------------------------------------------------------------------------
\* C11: for every record EncryptedBincode::serialize produces and every bit
\* of it (nonce prefix, ciphertext or tag), deserialize under the same key
\* on the record with that one bit flipped returns the decryption error and
\* never Ok.
C11_TamperDetected ==
    (cstage = "verified" /\ codec.kind = "EncryptedBincode") =>
        cdec = Err("InvalidData", "aead::Error")

\* a bit of the nonce prefix was flipped, and the decode was refused
C11_Witness ==
    /\ cstage = "verified" /\ codec.kind = "EncryptedBincode"
    /\ SubSeq(cbuf, 1, NonceLen) # cnonce
    /\ SubSeq(cbuf, NonceLen + 1, Len(cbuf)) =
           SubSeq(cenc.bytes, NonceLen + 1, Len(cenc.bytes))
    /\ cdec = Err("InvalidData", "aead::Error")

\* ------------------------------------------------------------------------
\* C12: once the underlying transport is exhausted, every further pull on
\* the adapter returns end-of-stream: a pull made after the transport has
\* answered end never panics, never stays pending and never yields a value.
C12_ExhaustedStaysEnded ==
    (drained /\ last.op = "poll_next") => (last.ret = End /\ ~panicked)

\* ------------------------------------------------------------------------
\* C13: for each plain codec (JSON, Bincode, MessagePack, CBOR), deserialize
\* on a valid encoding of a value followed by one or more extra bytes returns
\* an error; it never returns the value with the extra bytes ignored.
C13_TrailingBytesRejected ==
    (cstage = "reparsed"
        /\ codec.kind \in {"Json", "Bincode", "MessagePack", "Cbor"}) =>
        cdec.tag = "Err"

\* ------------------------------------------------------------------------
\* C14: a record returned by EncryptedBincode::serialize is the nonce drawn
\* for that call followed by what the cipher returned for the serialized
\* value (ciphertext and tag): its first NonceLen bytes are the nonce and its
\* length is NonceLen + the plaintext's length + TagLen.
C14_RecordLayout ==
    (cstage = "encoded" /\ codec.kind = "EncryptedBincode") =>
        LET plaintext == OptionsSerialize(codec.options, citem).bytes
        IN  /\ cenc = OkBytes(cbuf)
            /\ Len(cbuf) = NonceLen + Len(plaintext) + TagLen
            /\ SubSeq(cbuf, 1, NonceLen) = cnonce
            /\ SubSeq(cbuf, NonceLen + 1, Len(cbuf)) =
                   AeadEncrypt(codec.key, cnonce, plaintext).bytes

\* a three-byte plaintext: 24 + 3 + 16 bytes, led by the second nonce
C14_Witness ==
    /\ cstage = "encoded" /\ codec.kind = "EncryptedBincode"
    /\ citem = 300 /\ cnonce = Nonce(2)
    /\ Len(cbuf) = NonceLen + 3 + TagLen
    /\ SubSeq(cbuf, 1, NonceLen) = Nonce(2)

\* ------------------------------------------------------------------------
\* C15: EncryptedBincode::deserialize returns one and the same error (kind
\* InvalidData, same cause) for a record written under another key and for
\* a record whose ciphertext or tag was corrupted: the result does not tell
\* the two apart.
WrongKeyDecode ==
    /\ cstage = "parsed" /\ codec.kind = "EncryptedBincode"
    /\ Len(codec.key) = KeyLen
    /\ IsEncoding(OtherKey(codec), cbuf)

CorruptedDecode ==
    /\ cstage = "verified" /\ codec.kind = "EncryptedBincode"
    /\ SubSeq(cbuf, 1, NonceLen) = cnonce

C15_SameErrorForBoth ==
    (WrongKeyDecode \/ CorruptedDecode) => cdec = Err("InvalidData", "aead::Error")

\* a record of the other key was decoded and refused as a corrupted one is
C15_Witness ==
    /\ WrongKeyDecode
    /\ cdec = Err("InvalidData", "aead::Error")
    /\ cdec = Deserialize(codec, FlipBit(Serialize(codec, 2, Nonce(1)).bytes,
                                          NonceLen + 1, 0))

\* ------------------------------------------------------------------------
\* C16 as stated: no two encode calls of one EncryptedBincode instance use
\* the same nonce; in particular two records for the same value have
\* different nonce prefixes and different ciphertexts.
EncodedPairs ==
    {p \in (1..Len(submitted)) \X (1..Len(submitted)) :
        /\ p[1] < p[2]
        /\ EncodeOf(submitted[p[1]]).tag = "Ok"
        /\ EncodeOf(submitted[p[2]]).tag = "Ok"}

C17_ReadyAndFlushDelegate ==
    [][last'.op \in {"poll_ready", "poll_flush"} =>
          /\ Len(last'.inner) = 1
          /\ last'.inner[1].op = last'.op
          /\ last'.ret \in inner_poll
          /\ last'.ret.tag = last'.inner[1].res
          /\ last'.codec = 0
          /\ sunk' = sunk /\ submitted' = submitted /\ codec' = codec
          /\ ~panicked']_vars

\* a flush the transport refused while it held a buffer is handed back as it is
C17_Witness ==
    /\ last.op = "poll_flush"
    /\ last.inner = <<Inner("poll_flush", "Err", 1)>>
    /\ last.ret = SinkError
    /\ unflushed # << >>

\* ------------------------------------------------------------------------
\* C18: every poll_close call, the first and each later one, begins with the
\* flush step; when that flush answers an error or pending, the call returns
\* that answer, invokes nothing else on the transport, and the transport is
\* not closed.
C18_CloseStopsAtFailedFlush ==
    last.op = "poll_close" =>
        /\ last.inner[1].op = "poll_flush"
        /\ last.inner[1].res # "Ok" =>
              /\ Len(last.inner) = 1
              /\ last.ret \in {Pending, SinkError}
              /\ last.ret.tag = last.inner[1].res
              /\ ~closed

\* close polled with a buffer unflushed; the flush failed, the buffer is
\* still unflushed and the transport still open
C18_Witness ==
    /\ last.op = "poll_close"
    /\ last.inner = <<Inner("poll_flush", "Err", 1)>>
    /\ last.ret = SinkError
    /\ closing /\ ~closed /\ Len(unflushed) = 1

\* ------------------------------------------------------------------------
\* C19: a submit that failed, by an encode error or by an error of the
\* transport's start_send, changes nothing in the adapter (the codec is as
\* it was, the adapter has not unwound); a later submit of a value that
\* encodes is handed to the transport once, as the encoding of that value,
\* and returns the transport's answer, as it would with no failure before.
FailedBefore ==
    \/ \E i \in 1..Len(submitted) : EncodeOf(submitted[i]).tag = "Err"
    \/ Len(unflushed) + Len(wire) < Len(sunk)

C19_FailedSubmitLeavesAdapterUsable ==
    [][submitted' # submitted =>
          LET new == submitted'[Len(submitted')]
              r == Serialize(codec, new.item, new.nonce)
          IN  /\ last'.ret.tag = "Err" => (codec' = codec /\ ~panicked')
              /\ (FailedBefore /\ r.tag = "Ok") =>
                    /\ sunk' = Append(sunk, r.bytes)
                    /\ Len(last'.inner) = 1
                    /\ last'.ret \in inner_start_send
                    /\ last'.ret.tag = last'.inner[1].res
                    /\ last'.ret = OkUnit => unflushed' = Append(unflushed, r.bytes)
                    /\ codec' = codec /\ ~panicked']_vars

\* the transport refused the first buffer; the second submit went through
C19_Witness ==
    /\ Len(submitted) = 2 /\ Len(sunk) = 2
    /\ wire = << >> /\ unflushed = <<sunk[2]>>
    /\ sunk[2] = EncodeOf(submitted[2]).bytes
    /\ last.op = "start_send" /\ last.ret = OkUnit

\* ------------------------------------------------------------------------
\* C20: each pull on the adapter invokes the transport's pull exactly once
\* and the decoder at most once, and at every point the number of buffers
\* the adapter has taken from the transport equals the number of items (a
\* decoded value or a decode error) it has yielded: none is kept inside.
BuffersTaken == {i \in 1..Len(consumed) : consumed[i].tag = "Ok"}
ItemsYielded ==
    {i \in 1..Len(out) : out[i].tag = "Item" \/ (out[i].tag = "ErrItem" /\ out[i].conv)}

C20_PurePassThrough ==
    /\ last.op = "poll_next" =>
          /\ Len(last.inner) = 1
          /\ last.inner[1].op = "try_poll_next"
          /\ last.codec <= 1
    /\ Cardinality(BuffersTaken) = Cardinality(ItemsYielded)

\* ------------------------------------------------------------------------
\* C21: the two halves of one adapter do not interfere. In every
\* interleaving of pulls with poll_ready / start_send / poll_flush /
\* poll_close calls: only a pull changes the read half and it leaves the
\* write half as it was, only a sink call changes the write half and it
\* leaves the read half as it was, neither changes the codec they share, a
\* pull returns what a pull on the same transport state returns with no
\* write step made, the items yielded are those the pulls alone yield for
\* the buffers taken, and the buffers handed to the transport are those
\* the submits alone hand over.
RECURSIVE PullsAlone(_, _)
PullsAlone(c, evs) ==
    IF evs = << >> THEN << >>
    ELSE LET r == Framed_poll_next(c, PollSome(Head(evs))).ret
         IN  IF r.tag = "Panic" THEN << >> ELSE <<r>> \o PullsAlone(c, Tail(evs))

RECURSIVE SubmitsAlone(_, _)
SubmitsAlone(c, subs) ==
    IF subs = << >> THEN << >>
    ELSE Framed_start_send(c, Head(subs).item, Head(subs).nonce, OkUnit).fwd
             \o SubmitsAlone(c, Tail(subs))

PullResults ==
    {IF p.tag = "Panic" THEN p.item ELSE Framed_poll_next(codec, p).ret :
        p \in inner_try_poll_next(rx, drained)}

C21_HalvesIndependent ==
    /\ [](out = PullsAlone(codec, consumed) /\ sunk = SubmitsAlone(codec, submitted))
    /\ [][/\ readVars' # readVars => (writeVars' = writeVars /\ last'.op = "poll_next")
          /\ writeVars' # writeVars => (readVars' = readVars /\ last'.op # "poll_next")
          /\ codec' = codec
          /\ (last'.op = "poll_next" /\ last' # last) => last'.ret \in PullResults]_vars

\* a pull made while the transport held the buffer of a submit not yet
\* flushed: the reader has its two items, the transport its one buffer
C21_Witness ==
    /\ codec.kind = "EncryptedBincode"
    /\ last.op = "poll_next" /\ last.ret = Item(2)
    /\ last.inner[1].pend = 1
    /\ out = <<Item(2), Item(2)>>
    /\ Len(sunk) = 1 /\ unflushed = sunk

\* ------------------------------------------------------------------------
\* C22: with an EncryptedBincode built by new from a key of any length,
\* every serialize call and every deserialize call returns a Result (Ok or
\* an error) and none unwinds. Buffers shorter than the nonce are left to
\* C5: the decode calls looked at here are given at least NonceLen bytes.
C22_AnyKeyLengthReturns ==
    codec.kind = "EncryptedBincode" =>
        /\ cstage \in {"encoded", "failed"} => cenc.tag \in {"Ok", "Err"}
        /\ (cstage \in {"decoded", "parsed", "verified", "reparsed"}
               /\ Len(cbuf) >= NonceLen) => cdec.tag \in {"Ok", "Err"}

\* ------------------------------------------------------------------------
\* the write half with a caller that, once it has begun to close, keeps
\* polling poll_close, over a transport whose flush and whose close each
\* answer ready-Ok again and again when polled again and again
\* a poll_close in which inner.poll_flush answered ready-Ok
FlushReady == poll_close /\ last'.inner[1].res = "Ok"
\* a poll_close that went on to inner.poll_close
CloseInvoked == poll_close /\ Len(last'.inner) = 2
\* a poll_close in which inner.poll_close answered ready-Ok
CloseReady == CloseInvoked /\ last'.inner[2].res = "Ok"

\* the caller: a close that was begun is polled until it is done
CallerKeepsClosing == WF_vars(closing /\ poll_close)
\* the transport: polled again and again, poll_flush answers ready-Ok again
\* and again, and so does poll_close
FlushEventuallyReady == <>[][~poll_close]_vars \/ []<><<FlushReady>>_vars
CloseEventuallyReady == <>[][~CloseInvoked]_vars \/ []<><<CloseReady>>_vars

CloseInit == codec \in DuplexCodecs /\ InitState /\ rx = << >>
CloseNext == WriteNext
CloseSpec ==
    /\ CloseInit /\ [][CloseNext]_vars
    /\ CallerKeepsClosing /\ FlushEventuallyReady /\ CloseEventuallyReady

\* C23: once the caller has begun to close and keeps polling poll_close, and
\* the transport's flush and close each eventually answer ready-Ok, a
\* poll_close returns ready-Ok, and the transport's poll_close has then been
\* invoked and has closed it.
C23_CloseEventuallyCompletes ==
    closing ~> /\ closed
               /\ last.op = "poll_close" /\ last.ret = OkUnit
               /\ last.inner[Len(last.inner)].op = "poll_close"

\* a close that returned ready-Ok after flushing a buffer that a submit had
\* left with the transport
C23_Witness ==
    /\ closed /\ closing
    /\ last.op = "poll_close" /\ last.ret = OkUnit
    /\ last.inner[1] = Inner("poll_flush", "Ok", 1)
    /\ last.inner[2].op = "poll_close"
    /\ Len(wire) = 1 /\ unflushed = << >>

====
